---- MODULE Spec2Model ----
(***************************************************************************)
(* A model of the Generator ("streamable promise") of es5-generators.      *)
(*                                                                         *)
(* The repository holds two implementations of the constructor and its    *)
(* event plumbing:                                                         *)
(*   variant = "perEvent"   src/unnamed/part_001: the producer runs inside *)
(*                          the constructor and every done/reject/emit is  *)
(*                          put on its own setTimeout(.., 1);              *)
(*   variant = "perStream"  src/Generator.js: the whole producer runs in   *)
(*                          one setTimeout(.., 1) and done/reject/emit     *)
(*                          call the listeners synchronously.              *)
(* The host is modelled as the JavaScript event loop: one task runs at a   *)
(* time, timers of equal delay run in the order they were set.             *)
(*                                                                         *)
(* Spec follows one Generator and the code that consumes it; Network       *)
(* follows the Generators wired together by Generator.union, .exclude and  *)
(* .intersectByHash.                                                       *)
(***************************************************************************)
EXTENDS Integers, Sequences, FiniteSets, TLC

\* ---------------------------------------------------------------- bounds
MaxLen == 2          \* longest array handed to the constructor
MaxScript == 3       \* longest callback-style producer body
MaxMainReg == 2      \* registrations made by the constructing code
MaxLateOps == 1      \* register/deregister calls made after that code yielded

Values == {1, 2}
Listeners == {"a", "b"}
Kinds == {"emit", "catch", "done"}
Variants == {"perEvent", "perStream"}

VARIABLES
  variant,            \* which implementation is running
  producer,           \* the value passed to new Generator(cb)
  _registeredEmits,   \* self._registeredEmits
  _registeredCatches, \* self._registeredCatches
  _registeredDones,   \* self._registeredDones
  timers,             \* pending setTimeout callbacks, in firing order
  phase,              \* "start" | "main" | "idle" | "timer"
  constructed,        \* "no" | "ok" | "threw": outcome of new Generator(cb)
  position,           \* perStream: how many producer statements have run
  disp,               \* the activation of callback(fns, args), if any
  doneFuture,         \* state of the promise returned by done() with no argument
  doneValue,          \* the value that promise was rejected with
  mainRegs,           \* registrations made so far by the constructing code
  lateOps,            \* register/deregister calls made so far after the yield
  tick,               \* number of the task that is running (0: the constructing one)
  nextId,             \* number of callback(..) activations so far
  trace,              \* history: what happened, in order
  thenFuture,         \* state of the promise returned by then(cb)
  thenValue,          \* what that promise was settled with
  thenItems,          \* the items array of then(cb)
  thenCb,             \* what the cb given to then does: "returns" | "throws"
  emitFuture,         \* state of the promise returned by emit() with no argument
  emitValue,          \* the item that promise was resolved with
  source,             \* the promise handed to the constructor: "none" | "pending" | "settled"
  method,             \* the static method a network of Generators is built with
  comparator,         \* the comparator handed to exclude: "default" | "less"
  inputs,             \* the arrays the input Generators are built from
  generators,         \* the listener lists of the input Generators and of the output (0)
  promises,           \* promises / handlers: one promise per input Generator
  all,                \* Promise.all(..): its state and how many promises it still waits for
  jobs,               \* promise reactions waiting to run
  itemsOf,            \* exclude: itemsA (1) and itemsB (2); while collecting, then's items
  counts,             \* intersectByHash: map, from hash to number of occurrences
  distinctItems,      \* intersectByComparison: the items seen, with count and emitted flag
  shapes,             \* what each input of the network is built from
  resolved,           \* the inputs that are promises and have resolved
  cancelled,          \* the flag the array branch's cancellation hook sets
  stage,              \* how far the task that builds the network got
  log                 \* history of the network: what happened, in order

vars == << variant, producer, _registeredEmits, _registeredCatches,
           _registeredDones, timers, phase, constructed, position, disp,
           doneFuture, doneValue, mainRegs, lateOps, tick, nextId, trace,
           thenFuture, thenValue, thenItems, thenCb, emitFuture, emitValue, source,
           method, comparator, inputs, shapes, resolved, generators, promises, all, jobs,
           itemsOf, counts, distinctItems, cancelled,
           stage, log >>

\* The state of a network of Generators built with a static method.
network == << method, comparator, inputs, shapes, resolved, generators, promises, all,
              jobs, itemsOf, counts, distinctItems, stage, log >>

futures == << thenFuture, thenValue, thenItems, thenCb, emitFuture, emitValue >>

lists == << _registeredEmits, _registeredCatches, _registeredDones >>

\* ------------------------------------------------------------- producers
SeqsUpTo(S, n) == UNION { [1..m -> S] : m \in 0..n }

\* An array producer: new Generator([1,2,3]).
ArrayProducers ==
  { [shape |-> "array", items |-> s, script |-> << >>] : s \in SeqsUpTo(Values, MaxLen) }

\* A callback-style producer function(done, reject, emit) { ... }: a straight
\* line of calls to its three handles, possibly ended by a throw.
Statements == {"emit", "done", "reject"}

Scripts ==
  SeqsUpTo(Statements, MaxScript)
    \cup { Append(s, "throw") : s \in SeqsUpTo(Statements, MaxScript - 1) }

CallbackProducers ==
  { [shape |-> "callback", items |-> << >>, script |-> s] : s \in Scripts }

\* A promise producer: new Generator(promise), where promise will resolve to
\* its value (script "resolve") or reject with it (script "reject").
Settlements == {"resolve", "reject"}

PromiseProducers ==
  { [shape |-> "promise", items |-> << v >>, script |-> << o >>] : v \in Values, o \in Settlements }

\* A callback-style producer that ends by calling done(value), its complete
\* handle with a payload ("doneWith").
PayloadProducers ==
  { [shape |-> "callback", items |-> << >>, script |-> s] :
      s \in { << "doneWith" >>, << "emit", "doneWith" >> } }

Producers == ArrayProducers \cup CallbackProducers \cup PromiseProducers \cup PayloadProducers

\* The k-th statement of a script emits k, rejects with 10 + k, throws 20 + k,
\* or calls done: with no argument, or ("doneWith") with the payload 30 + k.
ScriptOp(s, k) ==
  [op  |-> IF s[k] = "doneWith" THEN "done" ELSE s[k],
   arg |-> CASE s[k] = "emit"     -> k
             [] s[k] = "done"     -> 0
             [] s[k] = "doneWith" -> 30 + k
             [] s[k] = "reject"   -> 10 + k
             [] s[k] = "throw"    -> 20 + k]

\* The array loop with an off-by-one bound (i < max - 1): the last element is
\* never emitted.
ArrayOpsShort(items) ==
  [k \in 1..(IF Len(items) = 0 THEN 1 ELSE Len(items)) |->
     IF k < Len(items) THEN [op |-> "emit", arg |-> items[k]]
                       ELSE [op |-> "done", arg |-> 0]]

\* The array branch of the constructor: emit(items[i]) for each i, then done().
ArrayOps(items) ==
  [k \in 1..(Len(items) + 1) |->
     IF k <= Len(items) THEN [op |-> "emit", arg |-> items[k]]
                        ELSE [op |-> "done", arg |-> 0]]

\* What the producer does, statement by statement, once it is invoked.  With
\* a promise the constructor only calls cb.then(..).
Ops(p) ==
  IF p.shape = "array" THEN ArrayOps(p.items)
  ELSE IF p.shape = "promise" THEN << >>
  ELSE [k \in 1..Len(p.script) |-> ScriptOp(p.script, k)]

\* The listener list an operation of a handle goes to.
KindOf(op) ==
  CASE op = "emit"   -> "emit"
    [] op = "done"   -> "done"
    [] op = "reject" -> "catch"

\* What a handle called with op.arg passes on to callback(list, args):
\* reject its error, emit its item, and done, which has no parameter, nothing.
args(op) == IF op.op = "done" THEN 0 ELSE op.arg

\* --------------------------------------------------------------- history
NoSnap == << >>

\* One entry of the history.  ev is one of
\*   "construct"  new Generator(cb) was entered
\*   "producer"   the producer was invoked (or its iteration began)
\*   "throw"      the producer threw arg
\*   "reg"        listener l was pushed on the list of kind
\*   "dereg"      deregister(kind, l) was called
\*   "begin"      callback(fns, args) was entered for an event of kind; snap is fns then
\*   "call"       fns[i].apply(null, args) invoked listener l
\*   "end"        callback(fns, args) returned
\*   "abort"      callback(fns, args) was left by a TypeError (fns[i] undefined)
\*   "cancel"     listener l called the cancel function it received with the item
\* id is the activation of callback(..) the entry belongs to (0: none), t the task.
Event(e, k, l, a, id, snap, t) ==
  [ev |-> e, kind |-> k, l |-> l, arg |-> a, id |-> id, tick |-> t, snap |-> snap]

\* ------------------------------------------------------- listener registry
\* deregister's view of the three lists: map[event].
map == [emit |-> _registeredEmits, catch |-> _registeredCatches, done |-> _registeredDones]

\* Write back one of the three lists.
Store(kind, list) ==
  /\ _registeredEmits'   = IF kind = "emit"  THEN list ELSE _registeredEmits
  /\ _registeredCatches' = IF kind = "catch" THEN list ELSE _registeredCatches
  /\ _registeredDones'   = IF kind = "done"  THEN list ELSE _registeredDones

\* this._registeredXs.push(cb)
push(list, cb) == Append(list, cb)

\* list.indexOf(cb), 0-based, -1 when absent
indexOf(list, cb) ==
  IF \E i \in 1..Len(list) : list[i] = cb
    THEN (CHOOSE i \in 1..Len(list) : list[i] = cb /\ \A j \in 1..(i-1) : list[j] # cb) - 1
    ELSE -1

\* list.splice(at, 2): the entry after the one at at goes too.
spliceTwo(list, at) ==
  [i \in 1..(Len(list) - (IF at + 2 <= Len(list) THEN 2 ELSE 1)) |->
     IF i <= at THEN list[i] ELSE list[i + 2]]

\* list.splice(at, 1), at 0-based
splice(list, at) ==
  [i \in 1..(Len(list) - 1) |-> IF i <= at THEN list[i] ELSE list[i + 1]]

\* deregister testing indexOf(cb) > 0: a listener at the head is never removed.
deregisterNotHead(list, cb) ==
  IF indexOf(list, cb) > 0 THEN splice(list, indexOf(list, cb)) ELSE list

\* Generator.prototype.deregister's effect on map[event]
deregister(list, cb) ==
  IF indexOf(list, cb) >= 0 THEN splice(list, indexOf(list, cb)) ELSE list

\* Timers of equal delay firing in the reverse of the order they were set.
setTimeoutFront(queue, f) == << f >> \o queue

\* setTimeout(f, 1): f runs after every timer already set
setTimeout(queue, f) == Append(queue, f)

\* A promise that is not settled holds no value.
NoValue == [how |-> "none", of |-> << >>]

\* No Promise.all(..) yet.
NoAll == [state |-> "none", remaining |-> 0]

NoDisp == [kind |-> "none", arg |-> 0, i |-> 0, max |-> 0, id |-> 0]

Dispatch(kind, arg) == [task |-> "dispatch", kind |-> kind, arg |-> arg]
RunProducer == [task |-> "producer", kind |-> "none", arg |-> 0]

\* ------------------------------------------------------------------ Init
Init ==
  /\ variant \in Variants
  /\ producer \in Producers
  /\ producer.shape = "promise" => variant = "perEvent"
  /\ _registeredEmits = << >>
  /\ _registeredCatches = << >>
  /\ _registeredDones = << >>
  /\ timers = << >>
  /\ phase = "start"
  /\ constructed = "no"
  /\ position = 0
  /\ disp = NoDisp
  /\ doneFuture = "none"
  /\ doneValue = 0
  /\ mainRegs = 0
  /\ lateOps = 0
  /\ tick = 0
  /\ nextId = 0
  /\ trace = << >>
  /\ thenFuture = "none"
  /\ thenValue = NoValue
  /\ thenItems = << >>
  /\ thenCb = "none"
  /\ emitFuture = "none"
  /\ emitValue = 0
  /\ source = IF producer.shape = "promise" THEN "pending" ELSE "none"
  /\ cancelled = FALSE
  /\ method = "none"
  /\ comparator = "default"
  /\ inputs = << >>
  /\ shapes = << >>
  /\ resolved = {}
  /\ generators = << >>
  /\ promises = << >>
  /\ all = NoAll
  /\ jobs = << >>
  /\ itemsOf = << >>
  /\ counts = << >>
  /\ distinctItems = << >>
  /\ stage = "none"
  /\ log = << >>


\* ----------------------------------------------------- the constructor
\* The statements the producer gets to run: everything before its throw.
RECURSIVE Ran(_)
Ran(ops) ==
  IF ops = << >> \/ Head(ops).op = "throw" THEN << >>
  ELSE << Head(ops) >> \o Ran(Tail(ops))

\* The producer gets invoked: cb(done, reject, emit) is called, or the array
\* loop reads a first element.
Starts(p) == p.shape = "callback" \/ (p.shape = "array" /\ p.items # << >>)

\* The history entry of that invocation, made by task t.
Started(p, t) ==
  IF Starts(p) THEN << Event("producer", "none", "-", 0, 0, NoSnap, t) >> ELSE << >>

Throws(ops) == \E k \in 1..Len(ops) : ops[k].op = "throw"
Thrown(ops) == ops[CHOOSE k \in 1..Len(ops) : ops[k].op = "throw"].arg

\* perEvent: done(), reject(error) and emit(item, cancel) only set a timer
\* whose callback runs callback(list, args).
RECURSIVE handles(_, _)
handles(queue, ops) ==
  IF ops = << >> THEN queue
  ELSE handles(setTimeout(queue, Dispatch(KindOf(Head(ops).op), args(Head(ops)))), Tail(ops))

\* The constructor of Generator.js without its setTimeout wrapper: the
\* producer starts inside the constructor call.
ConstructSync ==
  /\ phase = "start"
  /\ IF variant = "perEvent"
       THEN /\ phase' = "main"
            /\ timers' = handles(timers, Ran(Ops(producer)))
            /\ constructed' = IF Throws(Ops(producer)) THEN "threw" ELSE "ok"
            /\ trace' = trace
                 \o << Event("construct", "none", "-", 0, 0, NoSnap, tick) >>
                 \o Started(producer, tick)
                 \o (IF Throws(Ops(producer))
                       THEN << Event("throw", "none", "-", Thrown(Ops(producer)), 0, NoSnap, tick) >>
                       ELSE << >>)
       ELSE /\ phase' = "timer"
            /\ timers' = timers
            /\ constructed' = "ok"
            /\ trace' = trace
                 \o << Event("construct", "none", "-", 0, 0, NoSnap, tick) >>
                 \o Started(producer, tick)
  /\ UNCHANGED << network, cancelled, futures, source, variant, producer, lists, position, disp, doneFuture, doneValue,
                  mainRegs, lateOps, tick, nextId >>

\* new Generator(cb).  perEvent runs the producer (array loop or
\* cb(done, reject, emit)) before returning; a throw of cb leaves the
\* constructor.  perStream only sets the timer that will run the producer.
Construct ==
  /\ phase = "start"
  /\ phase' = "main"
  /\ IF variant = "perEvent"
       THEN /\ timers' = handles(timers, Ran(Ops(producer)))
            /\ constructed' = IF Throws(Ops(producer)) THEN "threw" ELSE "ok"
            /\ trace' = trace
                 \o << Event("construct", "none", "-", 0, 0, NoSnap, tick) >>
                 \o Started(producer, tick)
                 \o (IF Throws(Ops(producer))
                       THEN << Event("throw", "none", "-", Thrown(Ops(producer)), 0, NoSnap, tick) >>
                       ELSE << >>)
       ELSE /\ timers' = setTimeout(timers, RunProducer)
            /\ constructed' = "ok"
            /\ trace' = Append(trace, Event("construct", "none", "-", 0, 0, NoSnap, tick))
  /\ UNCHANGED << network, cancelled, futures, source, variant, producer, lists, position, disp, doneFuture, doneValue,
                  mainRegs, lateOps, tick, nextId >>

\* ------------------------------------------ the code that constructed it
\* The consuming code's listener functions are interchangeable: it uses "a"
\* before it uses "b".
Known(l) == l = "a" \/ \E n \in 1..Len(trace) : trace[n].ev = "reg" /\ trace[n].l = "a"

\* generator.emit(cb) / .catch(cb) / .done(cb) in the constructing task.
MainRegister(kind, l) ==
  /\ phase = "main"
  /\ constructed = "ok"
  /\ mainRegs < MaxMainReg
  /\ Known(l)
  /\ Store(kind, push(map[kind], l))
  /\ mainRegs' = mainRegs + 1
  /\ trace' = Append(trace, Event("reg", kind, l, 0, 0, NoSnap, tick))
  /\ UNCHANGED << network, cancelled, futures, source, variant, producer, timers, phase, constructed, position, disp,
                  doneFuture, doneValue, lateOps, tick, nextId >>

\* generator.done() with no argument (part_001 only): a promise wired to a
\* done listener that resolves it and a catch listener that rejects it.
MainDone ==
  /\ phase = "main"
  /\ constructed = "ok"
  /\ variant = "perEvent"
  /\ doneFuture = "none"
  /\ mainRegs < MaxMainReg
  /\ mainRegs' = mainRegs + 1
  /\ doneFuture' = "pending"
  /\ _registeredDones' = push(_registeredDones, "doneResolve")
  /\ _registeredCatches' = push(_registeredCatches, "doneReject")
  /\ trace' = trace
       \o << Event("reg", "done", "doneResolve", 0, 0, NoSnap, tick),
             Event("reg", "catch", "doneReject", 0, 0, NoSnap, tick) >>
  /\ UNCHANGED << network, cancelled, futures, source, variant, producer, _registeredEmits, timers, phase, constructed,
                  position, disp, doneValue, lateOps, tick, nextId >>

\* What the cb handed to then(cb) does when it is called.
ThenCbs == {"returns", "throws"}

\* cb(items): it returns, or throws, a value made from the array it is given.
Call(c, items) == [how |-> IF c = "returns" THEN "returned" ELSE "thrown", of |-> items]

\* generator.then(c) in the constructing task: a promise, an item listener
\* that collects the items and a completion listener that calls c.
MainThen(c) ==
  /\ phase = "main"
  /\ constructed = "ok"
  /\ thenFuture = "none"
  /\ mainRegs < MaxMainReg
  /\ mainRegs' = mainRegs + 1
  /\ thenFuture' = "pending"
  /\ thenCb' = c
  /\ thenItems' = << >>
  /\ _registeredEmits' = push(_registeredEmits, "thenPush")
  /\ _registeredDones' = push(_registeredDones, "thenDone")
  /\ trace' = trace
       \o << Event("reg", "emit", "thenPush", 0, 0, NoSnap, tick),
             Event("reg", "done", "thenDone", 0, 0, NoSnap, tick) >>
  /\ UNCHANGED << network, cancelled, thenValue, emitFuture, emitValue, source, variant, producer,
                  _registeredCatches, timers, phase, constructed, position, disp,
                  doneFuture, doneValue, lateOps, tick, nextId >>

\* generator.emit() with no argument (part_001 only): a promise wired to an
\* item listener that resolves it.
MainEmit ==
  /\ phase = "main"
  /\ constructed = "ok"
  /\ variant = "perEvent"
  /\ emitFuture = "none"
  /\ mainRegs < MaxMainReg
  /\ mainRegs' = mainRegs + 1
  /\ emitFuture' = "pending"
  /\ _registeredEmits' = push(_registeredEmits, "emitResolve")
  /\ trace' = Append(trace, Event("reg", "emit", "emitResolve", 0, 0, NoSnap, tick))
  /\ UNCHANGED << network, cancelled, thenFuture, thenValue, thenItems, thenCb, emitValue, source,
                  variant, producer, _registeredCatches, _registeredDones, timers,
                  phase, constructed, position, disp, doneFuture, doneValue,
                  lateOps, tick, nextId >>

\* The constructing task ends: control returns to the event loop.
Yield ==
  /\ phase = "main"
  /\ phase' = "idle"
  /\ UNCHANGED << network, cancelled, futures, source, variant, producer, lists, timers, constructed, position, disp,
                  doneFuture, doneValue, mainRegs, lateOps, tick, nextId, trace >>

\* -------------------------------------------------------- the event loop
\* The loop of callback with an off-by-one bound (max = fns.length - 1): the
\* last listener is never invoked.
EnterShort(kind, arg, t) ==
  /\ disp' = [kind |-> kind, arg |-> arg, i |-> 0,
              max |-> IF Len(map[kind]) = 0 THEN 0 ELSE Len(map[kind]) - 1,
              id |-> nextId + 1]
  /\ nextId' = nextId + 1
  /\ trace' = Append(trace, Event("begin", kind, "-", arg, nextId + 1, map[kind], t))

\* Enter callback(fns, args): var i = 0, max = fns.length.
Enter(kind, arg, t) ==
  /\ disp' = [kind |-> kind, arg |-> arg, i |-> 0, max |-> Len(map[kind]), id |-> nextId + 1]
  /\ nextId' = nextId + 1
  /\ trace' = Append(trace, Event("begin", kind, "-", arg, nextId + 1, map[kind], t))

\* perEvent: the timer set by done(), reject() or emit() fires.
FireDispatch ==
  /\ phase = "idle"
  /\ timers # << >>
  /\ Head(timers).task = "dispatch"
  /\ timers' = Tail(timers)
  /\ phase' = "timer"
  /\ tick' = tick + 1
  /\ Enter(Head(timers).kind, Head(timers).arg, tick + 1)
  /\ UNCHANGED << network, cancelled, futures, source, variant, producer, lists, constructed, position, doneFuture,
                  doneValue, mainRegs, lateOps >>

\* perStream: the timer set by the constructor fires and the producer starts.
FireProducer ==
  /\ phase = "idle"
  /\ timers # << >>
  /\ Head(timers).task = "producer"
  /\ timers' = Tail(timers)
  /\ phase' = "timer"
  /\ tick' = tick + 1
  /\ position' = 0
  /\ trace' = trace \o Started(producer, tick + 1)
  /\ UNCHANGED << network, cancelled, futures, source, variant, producer, lists, constructed, disp, doneFuture,
                  doneValue, mainRegs, lateOps, nextId >>

InProducer == variant = "perStream" /\ phase = "timer" /\ disp = NoDisp

\* perStream: the producer calls done(), reject(error) or emit(item), which
\* calls callback(list, args) at once.
ProducerCall ==
  /\ InProducer
  /\ position < Len(Ops(producer))
  /\ Ops(producer)[position + 1].op # "throw"
  /\ position' = position + 1
  /\ Enter(KindOf(Ops(producer)[position + 1].op), args(Ops(producer)[position + 1]), tick)
  /\ UNCHANGED << network, cancelled, futures, source, variant, producer, lists, timers, phase, constructed, doneFuture,
                  doneValue, mainRegs, lateOps, tick >>

\* perStream: the producer throws; nothing catches it, the task ends.
ProducerThrow ==
  /\ InProducer
  /\ position < Len(Ops(producer))
  /\ Ops(producer)[position + 1].op = "throw"
  /\ position' = Len(Ops(producer))
  /\ phase' = "idle"
  /\ trace' = Append(trace,
       Event("throw", "none", "-", Ops(producer)[position + 1].arg, 0, NoSnap, tick))
  /\ UNCHANGED << network, cancelled, futures, source, variant, producer, lists, timers, constructed, disp, doneFuture,
                  doneValue, mainRegs, lateOps, tick, nextId >>

\* perStream: the producer returns, the task ends.
ProducerReturn ==
  /\ InProducer
  /\ position = Len(Ops(producer))
  /\ phase' = "idle"
  /\ UNCHANGED << network, cancelled, futures, source, variant, producer, lists, timers, constructed, position, disp,
                  doneFuture, doneValue, mainRegs, lateOps, tick, nextId, trace >>

\* ------------------------------------------------------ callback(fns, args)
\* The loop testing i < fns.length on every turn instead of the max it read
\* on entry: it goes on to listeners pushed while it runs.
InLoopLive == disp # NoDisp /\ disp.i < Len(map[disp.kind])

\* The loop's test i < max.
InLoop == disp # NoDisp /\ disp.i < disp.max

\* fns[i] for the i the loop is at (1-based here); fns is the live list.
Defined == disp.i + 1 <= Len(map[disp.kind])
Current == map[disp.kind][disp.i + 1]

\* What a listener may do with the Generator while it runs.
\* Once the constructing task is over it only adds and removes item listeners.
LateKinds == {"emit"}

Acts ==
  { [type |-> "none", kind |-> "none", l |-> "-"] }
    \cup { [type |-> t, kind |-> k, l |-> l] : t \in {"reg", "dereg"}, k \in LateKinds, l \in Listeners }

\* deregister exists in part_001 only.
Allowed(act) ==
  \/ act.type = "none"
  \/ act.type = "reg" /\ lateOps < MaxLateOps /\ Known(act.l)
  \/ act.type = "dereg" /\ lateOps < MaxLateOps /\ Known(act.l) /\ variant = "perEvent"

\* The effect of a register or deregister call on the three lists.
Apply(act) ==
  CASE act.type = "none"  -> UNCHANGED lists
    [] act.type = "reg"   -> Store(act.kind, push(map[act.kind], act.l))
    [] act.type = "dereg" -> Store(act.kind, deregister(map[act.kind], act.l))

Logged(act, id, t) ==
  IF act.type = "none" THEN << >>
  ELSE << Event(act.type, act.kind, act.l, 0, id, NoSnap, t) >>

\* One turn of the loop: fns[i].apply(null, args) for a listener of the
\* consuming code, which may register or deregister before it returns.
InvokeListener(act) ==
  /\ InLoop
  /\ Defined
  /\ Current \in Listeners
  /\ Allowed(act)
  /\ Apply(act)
  /\ lateOps' = IF act.type = "none" THEN lateOps ELSE lateOps + 1
  /\ disp' = [disp EXCEPT !.i = @ + 1]
  /\ trace' = trace
       \o << Event("call", disp.kind, Current, disp.arg, disp.id, NoSnap, tick) >>
       \o Logged(act, disp.id, tick)
  /\ UNCHANGED << network, cancelled, futures, source, variant, producer, timers, phase, constructed, position,
                  doneFuture, doneValue, mainRegs, tick, nextId >>

\* One turn of the loop for a listener of the consuming code that calls
\* cancel(), the second argument it received with the item.  The array branch
\* of part_001 hands function() { cancelled = true } to emit(..) with every
\* item; Generator.js hands its listeners the item only.
InvokeCancel ==
  /\ InLoop
  /\ Defined
  /\ Current \in Listeners
  /\ disp.kind = "emit"
  /\ producer.shape = "array"
  /\ variant = "perEvent"
  /\ lateOps < MaxLateOps
  /\ lateOps' = lateOps + 1
  /\ cancelled' = TRUE
  /\ disp' = [disp EXCEPT !.i = @ + 1]
  /\ trace' = trace
       \o << Event("call", disp.kind, Current, disp.arg, disp.id, NoSnap, tick),
             Event("cancel", disp.kind, Current, disp.arg, disp.id, NoSnap, tick) >>
  /\ UNCHANGED << network, futures, source, variant, producer, lists, timers, phase,
                  constructed, position, doneFuture, doneValue, mainRegs, tick, nextId >>

\* The two listeners of done() settling the promise again on every terminal
\* event: the last one wins.
InvokeSettleLast ==
  /\ InLoop
  /\ Defined
  /\ Current \in {"doneResolve", "doneReject"}
  /\ doneFuture' = IF Current = "doneResolve" THEN "resolved" ELSE "rejected"
  /\ doneValue' = IF Current = "doneReject" THEN disp.arg ELSE 0
  /\ disp' = [disp EXCEPT !.i = @ + 1]
  /\ trace' = Append(trace, Event("call", disp.kind, Current, disp.arg, disp.id, NoSnap, tick))
  /\ UNCHANGED << network, cancelled, futures, source, variant, producer, lists, timers, phase, constructed,
                  position, mainRegs, lateOps, tick, nextId >>

\* One turn of the loop for the two listeners that done() wired to its
\* promise: resolve() and reject(err) settle a promise that is still pending.
InvokeSettle ==
  /\ InLoop
  /\ Defined
  /\ Current \in {"doneResolve", "doneReject"}
  /\ doneFuture' = IF doneFuture # "pending" THEN doneFuture
                   ELSE IF Current = "doneResolve" THEN "resolved" ELSE "rejected"
  /\ doneValue' = IF doneFuture = "pending" /\ Current = "doneReject" THEN disp.arg
                  ELSE doneValue
  /\ disp' = [disp EXCEPT !.i = @ + 1]
  /\ trace' = Append(trace, Event("call", disp.kind, Current, disp.arg, disp.id, NoSnap, tick))
  /\ UNCHANGED << network, cancelled, futures, source, variant, producer, lists, timers, phase, constructed, position,
                  mainRegs, lateOps, tick, nextId >>

\* items.unshift(item) in place of items.push(item).
thenUnshift(items, item) == << item >> \o items

\* items.push(item) in the item listener of then(cb)
thenPush(items, item) == Append(items, item)

\* resolve(..) and reject(..) of a promise: only a pending promise changes.
Settled(future, outcome) == IF future = "pending" THEN outcome ELSE future

\* One turn of the loop for the two listeners of then(cb): the item listener
\* pushes the item; the completion listener calls cb(items) and resolves
\* the promise with what cb returns, or rejects it with what cb throws.
InvokeThen ==
  /\ InLoop
  /\ Defined
  /\ Current \in {"thenPush", "thenDone"}
  /\ disp' = [disp EXCEPT !.i = @ + 1]
  /\ IF Current = "thenPush"
       THEN /\ thenItems' = thenPush(thenItems, disp.arg)
            /\ trace' = Append(trace,
                 Event("call", disp.kind, Current, disp.arg, disp.id, NoSnap, tick))
            /\ UNCHANGED << thenFuture, thenValue >>
       ELSE /\ thenFuture' = Settled(thenFuture,
                 IF thenCb = "returns" THEN "resolved" ELSE "rejected")
            /\ thenValue' = IF thenFuture = "pending" THEN Call(thenCb, thenItems)
                            ELSE thenValue
            /\ trace' = trace
                 \o << Event("call", disp.kind, Current, disp.arg, disp.id, NoSnap, tick),
                       Event("cb", disp.kind, Current, 0, disp.id, thenItems, tick) >>
            /\ UNCHANGED thenItems
  /\ UNCHANGED << network, cancelled, thenCb, emitFuture, emitValue, source, variant, producer, lists,
                  timers, phase, constructed, position, doneFuture, doneValue,
                  mainRegs, lateOps, tick, nextId >>

\* The item listener of emit() resolving on every item: the last one wins.
InvokeEmitResolveLast ==
  /\ InLoop
  /\ Defined
  /\ Current = "emitResolve"
  /\ emitFuture' = "resolved"
  /\ emitValue' = disp.arg
  /\ disp' = [disp EXCEPT !.i = @ + 1]
  /\ trace' = Append(trace, Event("call", disp.kind, Current, disp.arg, disp.id, NoSnap, tick))
  /\ UNCHANGED << network, cancelled, thenFuture, thenValue, thenItems, thenCb, source, variant,
                  producer, lists, timers, phase, constructed, position,
                  doneFuture, doneValue, mainRegs, lateOps, tick, nextId >>

\* One turn of the loop for the item listener of emit(): resolve(item).
InvokeEmitResolve ==
  /\ InLoop
  /\ Defined
  /\ Current = "emitResolve"
  /\ emitFuture' = Settled(emitFuture, "resolved")
  /\ emitValue' = IF emitFuture = "pending" THEN disp.arg ELSE emitValue
  /\ disp' = [disp EXCEPT !.i = @ + 1]
  /\ trace' = Append(trace, Event("call", disp.kind, Current, disp.arg, disp.id, NoSnap, tick))
  /\ UNCHANGED << network, cancelled, thenFuture, thenValue, thenItems, thenCb, source, variant,
                  producer, lists, timers, phase, constructed, position,
                  doneFuture, doneValue, mainRegs, lateOps, tick, nextId >>

\* One turn of the loop on a list that got shorter than max: fns[i] is
\* undefined, undefined.apply throws a TypeError that nothing catches; it
\* leaves the loop and the task (in perStream, the producer with it).
InvokeUndefined ==
  /\ InLoop
  /\ ~Defined
  /\ disp' = NoDisp
  /\ phase' = "idle"
  /\ position' = IF variant = "perStream" THEN Len(Ops(producer)) ELSE position
  /\ trace' = Append(trace, Event("abort", disp.kind, "-", disp.arg, disp.id, NoSnap, tick))
  /\ UNCHANGED << network, cancelled, futures, source, variant, producer, lists, timers, constructed, doneFuture,
                  doneValue, mainRegs, lateOps, tick, nextId >>

\* i reached max: callback returns.  In perEvent the timer callback ends
\* with it; in perStream control is back in the producer.
Return ==
  /\ disp # NoDisp
  /\ disp.i = disp.max
  /\ disp' = NoDisp
  /\ phase' = IF variant = "perEvent" THEN "idle" ELSE phase
  /\ trace' = Append(trace, Event("end", disp.kind, "-", disp.arg, disp.id, NoSnap, tick))
  /\ UNCHANGED << network, cancelled, futures, source, variant, producer, lists, timers, constructed, position,
                  doneFuture, doneValue, mainRegs, lateOps, tick, nextId >>

\* --------------------------------------------------- other consumer tasks
\* A task of the consuming code that runs between two tasks of the
\* Generator and registers or deregisters one listener.
UserTask(act) ==
  /\ phase = "idle"
  /\ timers # << >>
  /\ constructed = "ok"
  /\ act.type # "none"
  /\ Allowed(act)
  /\ Apply(act)
  /\ lateOps' = lateOps + 1
  /\ tick' = tick + 1
  /\ trace' = trace \o Logged(act, 0, tick + 1)
  /\ UNCHANGED << network, cancelled, futures, source, variant, producer, timers, phase, constructed, position, disp,
                  doneFuture, doneValue, mainRegs, nextId >>

\* ------------------------------------------------- the promise producer
\* A reaction that emits the result and forgets done().
ReactionNoDone(p) ==
  IF p.script = << "resolve" >> THEN << [op |-> "emit", arg |-> p.items[1]] >> ELSE << >>

\* The reaction the constructor attached with cb.then(..): emit(result, ..)
\* and done().  Nothing was attached for a rejection.
Reaction(p) ==
  IF p.script = << "resolve" >>
    THEN << [op |-> "emit", arg |-> p.items[1]], [op |-> "done", arg |-> 0] >>
    ELSE << >>

\* The promise handed to the constructor settles and its reaction, if it
\* has one, runs as a job of its own.
SettleSource ==
  /\ phase = "idle"
  /\ source = "pending"
  /\ source' = "settled"
  /\ tick' = tick + 1
  /\ timers' = handles(timers, Reaction(producer))
  /\ trace' = Append(trace,
       Event("settle", "none", producer.script[1], producer.items[1], 0, NoSnap, tick + 1))
  /\ UNCHANGED << network, cancelled, futures, variant, producer, lists, phase, constructed, position,
                  disp, doneFuture, doneValue, mainRegs, lateOps, nextId >>

Next ==
  \/ Construct
  \/ \E k \in Kinds, l \in Listeners : MainRegister(k, l)
  \/ MainDone
  \/ \E c \in ThenCbs : MainThen(c)
  \/ MainEmit
  \/ Yield
  \/ FireDispatch
  \/ FireProducer
  \/ ProducerCall
  \/ ProducerThrow
  \/ ProducerReturn
  \/ \E act \in Acts : InvokeListener(act)
  \/ InvokeSettle
  \/ InvokeThen
  \/ InvokeEmitResolve
  \/ InvokeCancel
  \/ InvokeUndefined
  \/ Return
  \/ \E act \in Acts : UserTask(act)
  \/ SettleSource

Spec == Init /\ [][Next]_vars

\* ================================================ networks of Generators
\* Generator.union, Generator.exclude, Generator.intersectByHash and
\* Generator.intersectByComparison build a Generator (the output, number 0)
\* whose producer subscribes to the inputs (numbers 1..K).  The code that
\* calls them builds every input (from an array, or from a function that
\* faults or stalls, or as a promise), calls the static method and registers
\* its own listeners on the output, all in one task.  Timers of all Generators share the one
\* timer queue; promise reactions run as jobs between two timers.
MaxInputs == 2       \* most input Generators handed to union / intersectByHash

Combinators == {"union", "exclude", "intersectByHash", "intersectByComparison"}
Comparators == {"default", "less"}

Out == 0

Arrays == SeqsUpTo(Values, MaxLen)

\* exclude takes two Generators, union and intersectByHash a list of them.
Networks(o) ==
  IF o = "exclude" THEN [1..2 -> Arrays]
  ELSE UNION { [1..k -> Arrays] : k \in 1..MaxInputs }

\* The hasher handed to intersectByHash: function(item) { return item.id }
hasher(item) == item.id

\* The two intersections.
Intersections == {"intersectByHash", "intersectByComparison"}

\* The array input i is built from: numbers, and for the intersections
\* objects with an id (src tells the objects of different arrays apart).
ElementsOf(i) ==
  IF method \in Intersections
    THEN [k \in 1..Len(inputs[i]) |-> [id |-> inputs[i][k], src |-> i]]
    ELSE inputs[i]

\* The comparator called with its arguments swapped: comparator(itemB, itemA).
compareSwapped(a, b) ==
  CASE comparator = "default" -> b = a
    [] comparator = "less"    -> b < a
    [] comparator = "id"      -> b.id = a.id

\* comparator(a, b): exclude's default a === b, or one handed in by the
\* caller (here: a < b for exclude, a.id == b.id for intersectByComparison).
compare(a, b) ==
  CASE comparator = "default" -> a = b
    [] comparator = "less"    -> a < b
    [] comparator = "id"      -> a.id = b.id

\* What an input is built from:
\*   "array"     new Generator([..])
\*   "faulting"  new Generator(function(done, reject, emit) {..}) whose
\*               function emits the items and then calls reject(error)
\*   "stalling"  the same, with a function that emits the items and never
\*               calls done() or reject(..)
\*   "promise"   no Generator: a promise that resolves to the array (handed
\*               to union only)
Shapes == {"array", "faulting", "stalling", "promise"}

ShapesFor(o) == IF o = "union" THEN Shapes ELSE Shapes \ {"promise"}

\* The error input i rejects with.
Fault(i) == 10 + i

\* What the producer of input i does, statement by statement.
InputOps(i) ==
  LET emits == [k \in 1..Len(inputs[i]) |-> [op |-> "emit", arg |-> ElementsOf(i)[k]]]
  IN  CASE shapes[i] = "array"    -> ArrayOps(ElementsOf(i))
        [] shapes[i] = "faulting" -> Append(emits, [op |-> "reject", arg |-> Fault(i)])
        [] shapes[i] = "stalling" -> emits
        [] shapes[i] = "promise"  -> << >>

NoLists == [emit |-> << >>, catch |-> << >>, done |-> << >>]

\* A listener: the function f, made for input i (0: made by the consumer).
Listener(f, i) == [f |-> f, i |-> i]

\* A timer of Generator s; from is the input whose listener set it.
Task(t, s, kind, arg, from) == [task |-> t, of |-> s, kind |-> kind, arg |-> arg, from |-> from]

\* One entry of the network's history.  ev is one of
\*   "construct"  new Generator(..) for Generator of
\*   "dispatch"   callback(fns, args) was entered on Generator of
\*   "call"       a listener of the consumer was invoked by Generator of
\*   "throw"      the producer of Generator of threw
Entry(e, s, kind, arg, from, t) ==
  [ev |-> e, of |-> s, kind |-> kind, arg |-> arg, from |-> from, tick |-> t]

\* What a task or job may change, as one value; now is the task's number.
Net(t) ==
  [timers |-> timers, promises |-> promises, all |-> all, jobs |-> jobs,
   items |-> itemsOf, counts |-> counts, distinctItems |-> distinctItems,
   log |-> log, now |-> t]

Become(st) ==
  /\ timers' = st.timers
  /\ promises' = st.promises
  /\ all' = st.all
  /\ jobs' = st.jobs
  /\ itemsOf' = st.items
  /\ counts' = st.counts
  /\ distinctItems' = st.distinctItems
  /\ log' = st.log

\* resolve() of the promise made for input i; its reaction is Promise.all's.
resolveOf(st, i) ==
  IF st.promises[i] # "pending" THEN st
  ELSE [st EXCEPT !.promises[i] = "resolved",
                  !.jobs = Append(@, [job |-> "element", i |-> i])]

\* reject(err) of the promise made for input i.
rejectOf(st, i) ==
  IF st.promises[i] # "pending" THEN st
  ELSE [st EXCEPT !.promises[i] = "rejected",
                  !.jobs = Append(@, [job |-> "rejection", i |-> i])]

RECURSIVE handle(_, _, _, _, _)
RECURSIVE loop(_, _, _, _, _, _)

\* handleEmit of intersectByHash testing its counter with >=: the item is
\* emitted whenever the count is at least generators.length.
handleEmitAtLeast(st, item, i) ==
  LET id    == hasher(item)
      count == st.counts[id] + 1
      st1   == [st EXCEPT !.counts[id] = count]
  IN  IF count >= Len(inputs) THEN handle(st1, Out, "emit", item, i) ELSE st1

\* handleEmit of intersectByHash: count the hash, emit when the count
\* equals generators.length.
handleEmit(st, item, i) ==
  LET id    == hasher(item)
      count == st.counts[id] + 1
      st1   == [st EXCEPT !.counts[id] = count]
  IN  IF count = Len(inputs) THEN handle(st1, Out, "emit", item, i) ELSE st1

\* handleEmit of intersectByComparison without its emitted flag: the item is
\* emitted whenever its count is at least generators.length.
handleEmitByComparisonAgain(st, item, i) ==
  LET found == { j \in 1..Len(st.distinctItems) : compare(st.distinctItems[j].item, item) }
  IN  IF found # {}
        THEN LET j     == CHOOSE m \in found : \A n \in found : m <= n
                 d     == st.distinctItems[j]
                 count == d.count + 1
                 st1   == [st EXCEPT !.distinctItems[j].count = count]
             IN  IF count >= Len(inputs)
                   THEN handle(st1, Out, "emit", d.item, i)
                   ELSE st1
        ELSE LET d == [item |-> item, count |-> 1, emitted |-> FALSE]
             IN  IF d.count = Len(inputs)
                   THEN [handle(st, Out, "emit", d.item, i) EXCEPT
                           !.distinctItems = Append(@, [d EXCEPT !.emitted = TRUE])]
                   ELSE [st EXCEPT !.distinctItems = Append(@, d)]

\* handleEmit of intersectByComparison: look the item up in distinctItems
\* with the comparator; count it, and emit the item first seen when the count
\* equals generators.length and it was not emitted before.
handleEmitByComparison(st, item, i) ==
  LET found == { j \in 1..Len(st.distinctItems) : compare(st.distinctItems[j].item, item) }
  IN  IF found # {}
        THEN LET j     == CHOOSE m \in found : \A n \in found : m <= n
                 d     == st.distinctItems[j]
                 count == d.count + 1
                 st1   == [st EXCEPT !.distinctItems[j].count = count]
             IN  IF ~d.emitted /\ count = Len(inputs)
                   THEN handle([st1 EXCEPT !.distinctItems[j].emitted = TRUE],
                               Out, "emit", d.item, i)
                   ELSE st1
        ELSE LET d == [item |-> item, count |-> 1, emitted |-> FALSE]
             IN  IF d.count = Len(inputs)
                   THEN [handle(st, Out, "emit", d.item, i) EXCEPT
                           !.distinctItems = Append(@, [d EXCEPT !.emitted = TRUE])]
                   ELSE [st EXCEPT !.distinctItems = Append(@, d)]

\* fns[i].apply(null, args) for listener l of Generator s.
apply(st, s, kind, arg, l) ==
  CASE l.f = "consumer"    -> [st EXCEPT !.log = Append(@, Entry("call", s, kind, arg, 0, st.now))]
    [] l.f = "forward"     -> handle(st, Out, "emit", arg, l.i)
    [] l.f = "doneResolve" -> resolveOf(st, l.i)
    [] l.f = "doneReject"  -> rejectOf(st, l.i)
    [] l.f = "thenPush"    -> [st EXCEPT !.items[l.i] = thenPush(@, arg)]
    [] l.f = "thenDone"    -> resolveOf(st, l.i)
    [] l.f = "handleEmit"  -> handleEmit(st, arg, l.i)
    [] l.f = "handleEmitByComparison" -> handleEmitByComparison(st, arg, l.i)
    [] l.f = "resolve"     -> resolveOf(st, l.i)

\* The loop of callback(fns, args) on Generator s, from the k-th listener on.
loop(st, s, kind, arg, from, k) ==
  IF k > Len(generators[s][kind]) THEN st
  ELSE loop(apply(st, s, kind, arg, generators[s][kind][k]), s, kind, arg, from, k + 1)

\* callback(fns, args) on Generator s.
callback(st, s, kind, arg, from) ==
  loop([st EXCEPT !.log = Append(@, Entry("dispatch", s, kind, arg, from, st.now))],
       s, kind, arg, from, 1)

\* done(), reject(error) or emit(item) of Generator s: part_001 sets a timer
\* for callback(..), Generator.js calls it.
handle(st, s, kind, arg, from) ==
  IF variant = "perEvent"
    THEN [st EXCEPT !.timers = setTimeout(@, Task("dispatch", s, kind, arg, from))]
    ELSE callback(st, s, kind, arg, from)

\* The producer of Generator s running the statements ops one by one.
RECURSIVE run(_, _, _)
run(st, s, ops) ==
  IF ops = << >> THEN st
  ELSE run(handle(st, s, KindOf(Head(ops).op), args(Head(ops)), 0), s, Tail(ops))

\* ------------------------------------------------ the output's producer
\* The listeners the producer of the output registers on input i:
\*   union (part_001)      generator.emit(forward), generator.done()
\*   union (Generator.js)  promise.emit(forward); on an input that is a
\*                         promise: promise.then(items), kept here in the
\*                         done list of the input, as the reaction to run
\*                         once the promise has resolved
\*   exclude               setA.then(..), setB.then(..)
\*   intersectByHash (part_001)     generator.emit(handleEmit).done(resolve)
\*   intersectByHash (Generator.js) handlers.emit is undefined: the promise's
\*                                  executor throws before it registers anything
\*   intersectByComparison          generator.emit(handleEmit).then(resolve)
Subscriptions(i) ==
  CASE method = "union" /\ variant = "perEvent" ->
         [emit  |-> << Listener("forward", i) >>,
          catch |-> << Listener("doneReject", i) >>,
          done  |-> << Listener("doneResolve", i) >>]
    [] method = "union" /\ variant = "perStream" /\ shapes[i] # "promise" ->
         [emit |-> << Listener("forward", i) >>, catch |-> << >>, done |-> << >>]
    [] method = "union" /\ variant = "perStream" /\ shapes[i] = "promise" ->
         [emit |-> << >>, catch |-> << >>, done |-> << Listener("items", i) >>]
    [] method = "exclude" ->
         [emit |-> << Listener("thenPush", i) >>, catch |-> << >>,
          done |-> << Listener("thenDone", i) >>]
    [] method = "intersectByHash" /\ variant = "perEvent" ->
         [emit |-> << Listener("handleEmit", i) >>, catch |-> << >>,
          done |-> << Listener("resolve", i) >>]
    [] method = "intersectByHash" /\ variant = "perStream" -> NoLists
    [] method = "intersectByComparison" ->
         [emit |-> << Listener("handleEmitByComparison", i), Listener("thenPush", i) >>,
          catch |-> << >>,
          done |-> << Listener("thenDone", i) >>]

\* union of part_001 calls Console.log(..) when an input has no emit method:
\* there is no Console, the call throws.  The input at which that happens;
\* one more than the number of inputs when it does not happen.
Thrower ==
  LET given == { i \in 1..Len(inputs) : shapes[i] = "promise" }
  IN  IF method = "union" /\ variant = "perEvent" /\ given # {}
        THEN CHOOSE i \in given : \A j \in given : i <= j
        ELSE Len(inputs) + 1

\* The output's producer throws.
Throwing == Thrower <= Len(inputs)

\* The listener lists once the producer of the output has run: it got to
\* the inputs before the one it threw at.
Subscribed ==
  [s \in DOMAIN generators |->
     IF s = Out \/ s >= Thrower THEN generators[s]
     ELSE [k \in Kinds |-> generators[s][k] \o Subscriptions(s)[k]]]

\* promise.then(..) on promises that have resolved already: the reactions
\* are queued at once.
Attached ==
  LET given == SelectSeq([i \in 1..Len(inputs) |-> i],
                         LAMBDA i : shapes[i] = "promise" /\ i \in resolved)
  IN  [k \in 1..Len(given) |-> [job |-> "items", i |-> given[k]]]

\* The executor of the promise made for an input threw.
ExecutorThrows == method = "intersectByHash" /\ variant = "perStream"

\* The producer uses no promise at all.
NoPromises == method = "union" /\ variant = "perStream"

\* The rest of the producer of the output: one promise per input and
\* Promise.all(..).then(..) over them.
produce(st) ==
  IF NoPromises THEN [st EXCEPT !.jobs = @ \o Attached]
  ELSE IF Throwing
    THEN [st EXCEPT !.promises = [i \in 1..Len(inputs) |->
                                    IF i < Thrower THEN "pending" ELSE "none"]]
  ELSE [st EXCEPT
          !.promises = [i \in 1..Len(inputs) |->
                          IF ExecutorThrows THEN "rejected" ELSE "pending"],
          !.all = [state |-> "pending", remaining |-> Len(inputs)],
          !.jobs = IF ExecutorThrows
                     THEN @ \o [i \in 1..Len(inputs) |-> [job |-> "rejection", i |-> i]]
                     ELSE @,
          !.items = IF method \in {"exclude", "intersectByComparison"}
                      THEN [i \in 1..Len(inputs) |-> << >>] ELSE @,
          !.counts = IF method = "intersectByHash" THEN [v \in Values |-> 0] ELSE @]

\* exclude's loop over itemsA from the i-th item on: emit(itemA) unless
\* comparator(itemA, itemB) holds for some itemB.
RECURSIVE excludeLoop(_, _)
excludeLoop(st, i) ==
  IF i > Len(st.items[1]) THEN st
  ELSE LET itemA == st.items[1][i]
           skip  == \E j \in 1..Len(st.items[2]) : compare(itemA, st.items[2][j])
       IN  excludeLoop(IF skip THEN st ELSE handle(st, Out, "emit", itemA, 1), i + 1)

\* The function handed to Promise.all(..).then(..).
finish(st) ==
  IF method = "exclude" THEN handle(excludeLoop(st, 1), Out, "done", 0, 0)
  ELSE handle(st, Out, "done", 0, 0)

\* ---------------------------------------------- the task that builds it
\* The single Generator's variables, which a network leaves alone.
alone == << producer, lists, phase, constructed, position, disp, doneFuture,
            doneValue, mainRegs, lateOps, nextId, trace, futures, source, cancelled >>

CInit ==
  /\ variant \in Variants
  /\ method \in Combinators
  /\ comparator \in (CASE method = "exclude" -> Comparators
                        [] method = "intersectByComparison" -> {"id"}
                        [] OTHER -> {"default"})
  /\ inputs \in Networks(method)
  /\ shapes \in [1..Len(inputs) -> ShapesFor(method)]
  /\ resolved = {}
  /\ generators = [s \in 0..Len(inputs) |-> NoLists]
  /\ promises = << >>
  /\ all = NoAll
  /\ jobs = << >>
  /\ itemsOf = << >>
  /\ counts = << >>
  /\ distinctItems = << >>
  /\ stage = "build"
  /\ log = << >>
  /\ timers = << >>
  /\ tick = 0
  /\ producer = [shape |-> "array", items |-> << >>, script |-> << >>]
  /\ _registeredEmits = << >>
  /\ _registeredCatches = << >>
  /\ _registeredDones = << >>
  /\ phase = "none"
  /\ constructed = "no"
  /\ position = 0
  /\ disp = NoDisp
  /\ doneFuture = "none"
  /\ doneValue = 0
  /\ mainRegs = 0
  /\ lateOps = 0
  /\ nextId = 0
  /\ trace = << >>
  /\ thenFuture = "none"
  /\ thenValue = NoValue
  /\ thenItems = << >>
  /\ thenCb = "none"
  /\ emitFuture = "none"
  /\ emitValue = 0
  /\ source = "none"
  /\ cancelled = FALSE

\* How many input Generators have been constructed.
Built == Cardinality({ n \in DOMAIN log : log[n].ev = "construct" /\ log[n].of # Out })

\* new Generator(..) for the next input: part_001 runs the array loop or the
\* function, which sets one timer per call of a handle; Generator.js sets the
\* timer that will run it.  An input that is a promise is just made.
NewInput ==
  /\ stage = "build"
  /\ Built < Len(inputs)
  /\ timers' = IF shapes[Built + 1] = "promise" THEN timers
                ELSE IF variant = "perEvent"
                 THEN run(Net(tick), Built + 1, InputOps(Built + 1)).timers
                 ELSE setTimeout(timers, Task("producer", Built + 1, "none", 0, 0))
  /\ log' = Append(log, Entry("construct", Built + 1, "none", 0, 0, tick))
  /\ UNCHANGED << alone, variant, tick, method, comparator, inputs, shapes, resolved,
                  generators, promises, all, jobs, itemsOf, counts, distinctItems, stage >>

\* Generator.union(..) / .exclude(..) / .intersectByHash(..): new Generator
\* of a producer that subscribes to the inputs.  part_001 runs that producer
\* before returning, Generator.js sets the timer that will run it.  When the
\* producer throws, part_001's constructor and the static method throw: the
\* calling code gets no output to register listeners on.
Combine ==
  /\ stage = "build"
  /\ Built = Len(inputs)
  /\ stage' = IF Throwing THEN "threw" ELSE "combined"
  /\ IF variant = "perEvent"
       THEN /\ generators' = Subscribed
            /\ Become([produce(Net(tick)) EXCEPT
                 !.log = @ \o << Entry("construct", Out, "none", 0, 0, tick) >>
                           \o (IF Throwing THEN << Entry("throw", Out, "none", 0, Thrower, tick) >>
                                            ELSE << >>)])
       ELSE /\ timers' = setTimeout(timers, Task("producer", Out, "none", 0, 0))
            /\ log' = Append(log, Entry("construct", Out, "none", 0, 0, tick))
            /\ UNCHANGED << generators, promises, all, jobs, itemsOf, counts, distinctItems >>
  /\ UNCHANGED << alone, variant, tick, method, comparator, inputs, shapes, resolved >>

\* The calling code registers its listeners on the output:
\* .emit(..).done(..) and .catch(..).
Listen ==
  /\ stage = "combined"
  /\ stage' = "listening"
  /\ generators' = [generators EXCEPT ![Out] =
       [k \in Kinds |-> push(generators[Out][k], Listener("consumer", 0))]]
  /\ UNCHANGED << alone, variant, tick, timers, method, comparator, inputs, shapes, resolved,
                  promises, all, jobs, itemsOf, counts, distinctItems, log >>

\* The calling code's task ends: after it registered its listeners, or with
\* the exception the static method threw.
Release ==
  /\ stage \in {"listening", "threw"}
  /\ stage' = "run"
  /\ UNCHANGED << alone, variant, tick, timers, method, comparator, inputs, shapes, resolved,
                  generators, promises, all, jobs, itemsOf, counts, distinctItems, log >>

\* ------------------------------------------------------ the event loop
\* part_001: the timer set by done(), reject() or emit() of some Generator
\* fires and runs callback(..) (also the output's, in Generator.js never).
FireTimer ==
  /\ stage = "run"
  /\ jobs = << >>
  /\ timers # << >>
  /\ Head(timers).task = "dispatch"
  /\ tick' = tick + 1
  /\ Become(callback([Net(tick + 1) EXCEPT !.timers = Tail(timers)],
                     Head(timers).of, Head(timers).kind, Head(timers).arg,
                     Head(timers).from))
  /\ UNCHANGED << alone, variant, method, comparator, inputs, shapes, resolved, generators,
                  stage >>

\* Generator.js: the timer set by a constructor fires and runs the producer:
\* the array loop of an input, or the subscribing producer of the output.
StartProducer ==
  /\ stage = "run"
  /\ jobs = << >>
  /\ timers # << >>
  /\ Head(timers).task = "producer"
  /\ tick' = tick + 1
  /\ IF Head(timers).of = Out
       THEN /\ generators' = Subscribed
            /\ Become(produce([Net(tick + 1) EXCEPT !.timers = Tail(timers)]))
       ELSE /\ generators' = generators
            /\ Become(run([Net(tick + 1) EXCEPT !.timers = Tail(timers)],
                          Head(timers).of, InputOps(Head(timers).of)))
  /\ UNCHANGED << alone, variant, method, comparator, inputs, shapes, resolved, stage >>

\* The function union hands to promise.then(..): emit(items[j]) for each j.
RECURSIVE emitAll(_, _, _)
emitAll(st, items, i) ==
  IF items = << >> THEN st
  ELSE emitAll(handle(st, Out, "emit", Head(items), i), Tail(items), i)

\* Promise.all(..) resolving with the first of its promises that resolves,
\* without waiting for the others.
reactFirst(st, j) ==
  CASE j.job = "element" ->
         IF st.all.state # "pending" THEN st
         ELSE [st EXCEPT !.all = [state |-> "resolved", remaining |-> 0],
                         !.jobs = Append(@, [job |-> "then", i |-> 0])]
    [] j.job = "rejection" ->
         IF st.all.state # "pending" THEN st
         ELSE [st EXCEPT !.all.state = "rejected"]
    [] j.job = "then" -> finish(st)
    [] j.job = "items" -> emitAll(st, inputs[j.i], j.i)

\* What the promise reaction j does:
\*   "items"      union's reaction to an input promise that resolved
\*   "element"    Promise.all's reaction to a promise that resolved
\*   "rejection"  Promise.all's reaction to a promise that rejected; nothing
\*                handles the rejection of Promise.all(..).then(..)
\*   "then"       the function handed to Promise.all(..).then(..)
react(st, j) ==
  CASE j.job = "element" ->
         IF st.all.state # "pending" THEN st
         ELSE IF st.all.remaining > 1
           THEN [st EXCEPT !.all.remaining = @ - 1]
           ELSE [st EXCEPT !.all = [state |-> "resolved", remaining |-> 0],
                           !.jobs = Append(@, [job |-> "then", i |-> 0])]
    [] j.job = "rejection" ->
         IF st.all.state # "pending" THEN st
         ELSE [st EXCEPT !.all.state = "rejected"]
    [] j.job = "then" -> finish(st)
    [] j.job = "items" -> emitAll(st, inputs[j.i], j.i)

\* A promise handed to union in place of a Generator resolves to its array;
\* the reaction attached to it with then(..), if there is one yet, is queued.
ResolveInput ==
  /\ stage = "run"
  /\ jobs = << >>
  /\ \E i \in 1..Len(inputs) :
       /\ shapes[i] = "promise"
       /\ i \notin resolved
       /\ resolved' = resolved \cup {i}
       /\ jobs' = [k \in 1..Len(generators[i]["done"]) |-> [job |-> "items", i |-> i]]
  /\ UNCHANGED << alone, variant, tick, timers, method, comparator, inputs, shapes,
                  generators, promises, all, itemsOf, counts, distinctItems, stage, log >>

\* The next promise reaction runs, before any other timer fires.
RunJob ==
  /\ stage = "run"
  /\ jobs # << >>
  /\ Become(react([Net(tick) EXCEPT !.jobs = Tail(jobs)], Head(jobs)))
  /\ UNCHANGED << alone, variant, tick, method, comparator, inputs, shapes, resolved,
                  generators, stage >>

CNext ==
  \/ NewInput
  \/ Combine
  \/ Listen
  \/ Release
  \/ FireTimer
  \/ StartProducer
  \/ ResolveInput
  \/ RunJob

Network == CInit /\ [][CNext]_vars

\* ------------------------------------------------- reading the history
Idx == DOMAIN trace

IsPrefix(s, t) == Len(s) <= Len(t) /\ s = SubSeq(t, 1, Len(s))

\* The run is over: no task is running, no timer is set and the promise
\* handed to the constructor, if any, has settled.
Finished == phase = "idle" /\ timers = << >> /\ source # "pending"

\* Where listener l was pushed on the list of kind k.
RegsOf(k, l) == { n \in Idx : trace[n].ev = "reg" /\ trace[n].kind = k /\ trace[n].l = l }

\* l was registered for k exactly once, by the constructing task.
AtConstruction(k, l) ==
  /\ Cardinality(RegsOf(k, l)) = 1
  /\ \A n \in RegsOf(k, l) : trace[n].tick = 0

\* No deregister call among the first n entries.
NoDeregUpTo(n) == \A m \in 1..n : trace[m].ev # "dereg"
NoDereg == NoDeregUpTo(Len(trace))

\* The arguments listener l of kind k was invoked with, among the first n entries.
Received(k, l, n) ==
  LET calls == SelectSeq(SubSeq(trace, 1, n),
                 LAMBDA e : e.ev = "call" /\ e.kind = k /\ e.l = l)
  IN  [i \in 1..Len(calls) |-> calls[i].arg]

\* Where events of kind k were dispatched (callback(..) entered).
Begins(k) == { n \in Idx : trace[n].ev = "begin" /\ trace[n].kind = k }

\* The listeners invoked by activation id of callback(..), in order.
Invoked(id) ==
  LET calls == SelectSeq(trace, LAMBDA e : e.ev = "call" /\ e.id = id)
  IN  [i \in 1..Len(calls) |-> calls[i].l]

\* Activation id of callback(..) is over (returned or thrown out of).
Over(id) == \E n \in Idx : trace[n].ev \in {"end", "abort"} /\ trace[n].id = id

\* ------------------------------------------------------------------ C1
\* C1: a Generator built from an array S invokes an item listener that was
\* registered right after construction (and stays registered, nothing being
\* deregistered) with exactly the elements of S, in S's order; completion is
\* dispatched exactly once, a completion listener registered with it is
\* invoked exactly once, and no item is dispatched after the completion.
C1_ArrayInOrderThenDone ==
  producer.shape = "array" =>
    /\ \A l \in Listeners :
         (AtConstruction("emit", l) /\ NoDereg) =>
           /\ IsPrefix(Received("emit", l, Len(trace)), producer.items)
           /\ Finished => Received("emit", l, Len(trace)) = producer.items
    /\ \A l \in Listeners :
         (AtConstruction("done", l) /\ Finished) => Len(Received("done", l, Len(trace))) = 1
    /\ Cardinality(Begins("done")) <= 1
    /\ Finished => Cardinality(Begins("done")) = 1
    /\ \A m \in Begins("done"), n \in Idx :
         (trace[n].kind = "emit" /\ trace[n].ev \in {"begin", "call"}) => n < m

W1_ArrayDelivered ==
  /\ Finished
  /\ producer.shape = "array"
  /\ producer.items = << 2, 1 >>
  /\ AtConstruction("emit", "a")
  /\ AtConstruction("done", "b")
  /\ NoDereg
  /\ Received("emit", "a", Len(trace)) = << 2, 1 >>
  /\ Len(Received("done", "b", Len(trace))) = 1

\* ------------------------------------------------------------------ C2
\* The activations of callback(..) for a terminal event (done or catch) in
\* which at least one listener was invoked.
TerminalFired ==
  { trace[n].id : n \in { m \in Idx : trace[m].ev = "call" /\ trace[m].kind \in {"done", "catch"} } }

\* C2: at most one terminal event is ever dispatched: completion listeners
\* and fault listeners never both fire, and neither kind fires twice.
C2_AtMostOneTerminal == Cardinality(TerminalFired) <= 1

\* ------------------------------------------------------------------ C3
\* C3: the producer is never invoked (nor its iteration begun) by the task
\* that runs the constructor; its first invocation is in a later task.
C3_ProducerDeferred ==
  \A n \in Idx : trace[n].ev = "producer" => trace[n].tick > 0

\* ------------------------------------------------------------------ C4
\* C4: no event is dispatched to a listener by the task that constructed the
\* Generator, and a listener registered by that task is invoked in every
\* dispatch of its kind (as long as nothing has been deregistered).
C4_NothingBeforeYield ==
  /\ \A n \in Idx : trace[n].ev \in {"begin", "call"} => trace[n].tick > 0
  /\ \A n \in Idx :
       (trace[n].ev = "end" /\ NoDeregUpTo(n)) =>
         \A l \in Listeners :
           AtConstruction(trace[n].kind, l) =>
             \E c \in 1..n : /\ trace[c].ev = "call"
                              /\ trace[c].id = trace[n].id
                              /\ trace[c].l = l
                              /\ trace[c].arg = trace[n].arg

W4_FirstEventReceived ==
  /\ AtConstruction("emit", "a")
  /\ NoDereg
  /\ Len(Received("emit", "a", Len(trace))) >= 2
  /\ \E n \in Begins("emit") : \A m \in Begins("emit") : n <= m /\ trace[n].tick = 1

\* ------------------------------------------------------------------ C5
\* C5: items are never replayed, and an item listener that is registered
\* (for the first time) after completion was dispatched is never invoked.
C5_NoCallAfterCompletion ==
  \A n \in Idx :
    ( /\ trace[n].ev = "reg"
      /\ trace[n].kind = "emit"
      /\ \A r \in RegsOf("emit", trace[n].l) : r >= n
      /\ \E m \in 1..n : trace[m].ev = "end" /\ trace[m].kind = "done" )
    => \A c \in Idx : ~(trace[c].ev = "call" /\ trace[c].kind = "emit" /\ trace[c].l = trace[n].l)

\* ------------------------------------------------------------------ C6
\* deregister was called while activation id of callback(..) was running.
DeregDuring(id) == \E n \in Idx : trace[n].ev = "dereg" /\ trace[n].id = id

\* C6: in every dispatch (during which nothing is deregistered) the
\* listeners registered for the event's kind when the dispatch began are
\* invoked in registration order, each once, with the event's argument, and
\* the whole dispatch is over before another event is dispatched.
C6_RegistrationOrder ==
  /\ \A n \in Idx :
       (trace[n].ev = "begin" /\ ~DeregDuring(trace[n].id)) =>
         /\ IsPrefix(Invoked(trace[n].id), trace[n].snap)
         /\ Over(trace[n].id) => Invoked(trace[n].id) = trace[n].snap
  /\ \A c \in Idx :
       trace[c].ev = "call" =>
         \E b \in 1..c : /\ trace[b].ev = "begin"
                         /\ trace[b].id = trace[c].id
                         /\ trace[b].arg = trace[c].arg
                         /\ trace[b].kind = trace[c].kind
                         /\ \A m \in b..c : trace[m].id = trace[c].id

W6_TwoListenersInOrder ==
  \E n \in Idx :
    /\ trace[n].ev = "begin"
    /\ trace[n].snap = << "a", "b" >>
    /\ Over(trace[n].id)
    /\ ~DeregDuring(trace[n].id)
    /\ Invoked(trace[n].id) = << "a", "b" >>
    /\ \E r \in Idx : trace[r].ev = "reg" /\ trace[r].id = trace[n].id

\* ------------------------------------------------------------------ C7
\* deregister(kind, l) was called while activation id was running.
Removed(id, k, l) ==
  \E n \in Idx : trace[n].ev = "dereg" /\ trace[n].id = id /\ trace[n].kind = k /\ trace[n].l = l

Count(seq, x) == Cardinality({ i \in DOMAIN seq : seq[i] = x })

\* C7: dispatch iterates a stable snapshot: when a listener deregisters
\* itself or another listener during a dispatch, the dispatch still ends
\* without an error and every listener that was registered when it began and
\* was not removed is invoked exactly once.
C7_StableSnapshot ==
  \A n \in Idx :
    trace[n].ev = "begin" =>
      /\ ~\E m \in Idx : trace[m].ev = "abort" /\ trace[m].id = trace[n].id
      /\ Over(trace[n].id) =>
           \A l \in Listeners :
             (Count(trace[n].snap, l) = 1 /\ ~Removed(trace[n].id, trace[n].kind, l))
               => Count(Invoked(trace[n].id), l) = 1

\* ------------------------------------------------------------------ C8
\* The first deregister("emit", cb) after cb was registered at entry r.
FirstDereg(cb, r) ==
  CHOOSE d \in Idx :
    /\ d > r /\ trace[d].ev = "dereg" /\ trace[d].l = cb
    /\ \A m \in (r + 1)..(d - 1) : ~(trace[m].ev = "dereg" /\ trace[m].l = cb)

\* The number of listeners activation id had invoked before entry d.
InvokedBefore(id, d) ==
  Cardinality({ c \in 1..d : trace[c].ev = "call" /\ trace[c].id = id })

\* The item dispatches cb was registered for: those that began after its
\* registration at r and before its removal at d, except the one during
\* which it was removed before the loop had reached it.
DispatchedWhileRegistered(cb, r, d) ==
  { b \in Begins("emit") :
      /\ r < b /\ b < d
      /\ trace[d].id = trace[b].id =>
           InvokedBefore(trace[b].id, d) >= indexOf(trace[b].snap, cb) + 1 }

\* cb is an item listener that was registered once and then deregistered,
\* and no other listener was deregistered.
Deregistered(cb) ==
  /\ Cardinality(RegsOf("emit", cb)) = 1
  /\ \A m \in Idx : trace[m].ev = "dereg" => (trace[m].kind = "emit" /\ trace[m].l = cb)
  /\ \E d \in Idx : trace[d].ev = "dereg" /\ \A r \in RegsOf("emit", cb) : d > r

\* cb removed itself while it was invoked for the first time.
SelfOnFirst(cb, d) ==
  /\ d > 1
  /\ trace[d - 1].ev = "call" /\ trace[d - 1].l = cb /\ trace[d - 1].kind = "emit"
  /\ Len(Received("emit", cb, d)) = 1

\* How many times the producer (or, for a promise, the reaction attached to
\* it) called its complete handle.
Completions ==
  LET calls == Ran(Ops(producer)) \o Reaction(producer)
  IN  Cardinality({ k \in DOMAIN calls : calls[k].op = "done" })

\* C8: once deregister("emit", cb) has returned cb is not invoked for any
\* item dispatched afterwards; cb was invoked once for each item dispatched
\* while it was registered; a listener that deregisters itself on the first
\* item is invoked exactly once and completion is still dispatched.
C8_DeregisterStops ==
  \A cb \in Listeners :
    Deregistered(cb) =>
      LET r == CHOOSE n \in RegsOf("emit", cb) : TRUE
          d == FirstDereg(cb, r)
      IN  /\ \A c \in Idx :
               (trace[c].ev = "call" /\ trace[c].kind = "emit" /\ trace[c].l = cb) => c < d
          /\ disp = NoDisp =>
               Len(Received("emit", cb, Len(trace)))
                 = Cardinality(DispatchedWhileRegistered(cb, r, d))
          /\ (SelfOnFirst(cb, d) /\ Finished) =>
               /\ Len(Received("emit", cb, Len(trace))) = 1
               /\ Cardinality(Begins("done")) = Completions

W8_SelfDeregisterOnFirst ==
  /\ Finished
  /\ producer.shape = "callback"
  /\ producer.script = << "emit", "emit", "done" >>
  /\ AtConstruction("emit", "a")
  /\ AtConstruction("done", "b")
  /\ Deregistered("a")
  /\ SelfOnFirst("a", FirstDereg("a", CHOOSE n \in RegsOf("emit", "a") : TRUE))
  /\ Received("emit", "a", Len(trace)) = << 1 >>
  /\ Cardinality(Begins("emit")) = 2
  /\ Len(Received("done", "b", Len(trace))) = 1

\* ------------------------------------------------------------------ C9
\* C9: when a callback-style producer throws, the thrown value is dispatched
\* to the fault listeners, no completion listener is invoked, and the promise
\* returned by done() is rejected with the thrown value.
C9_ThrowBecomesFault ==
  \A n \in Idx :
    (trace[n].ev = "throw" /\ Finished) =>
      /\ \E b \in Begins("catch") : trace[b].arg = trace[n].arg
      /\ \A c \in Idx : ~(trace[c].ev = "call" /\ trace[c].kind = "done")
      /\ doneFuture # "none" => (doneFuture = "rejected" /\ doneValue = trace[n].arg)

\* ----------------------------------------------------------------- C10
\* The producer calls emit n times and then the complete handle.
EmitsThenDone ==
  /\ producer.shape = "callback"
  /\ Len(producer.script) >= 1
  /\ \A k \in DOMAIN producer.script :
       producer.script[k] = IF k = Len(producer.script) THEN "done" ELSE "emit"

\* C10: when a callback-style producer calls emit n times and then the
\* complete handle, a completion listener is invoked only after every item
\* listener registered at construction (nothing being deregistered) has been
\* invoked with all n items, in emission order.
C10_DoneAfterAllItems ==
  EmitsThenDone =>
    \A c \in Idx :
      (trace[c].ev = "call" /\ trace[c].kind = "done" /\ NoDeregUpTo(c)) =>
        \A l \in Listeners :
          AtConstruction("emit", l) =>
            Received("emit", l, c) = [k \in 1..(Len(producer.script) - 1) |-> k]

W10_DoneAfterTwoItems ==
  /\ EmitsThenDone
  /\ Len(producer.script) = 3
  /\ AtConstruction("emit", "a")
  /\ AtConstruction("done", "b")
  /\ NoDereg
  /\ Len(Received("done", "b", Len(trace))) = 1
  /\ Received("emit", "a", Len(trace)) = << 1, 2 >>

\* ----------------------------------------------------------------- C11
\* The producer emits some items and then completes, once.
Completes ==
  \/ producer.shape = "array"
  \/ EmitsThenDone
  \/ producer.shape = "promise" /\ producer.script = << "resolve" >>

\* Where the cb handed to then() was called; snap is the array it was given.
CbCalls == { n \in Idx : trace[n].ev = "cb" }

\* The items dispatched among the first n entries, in dispatch order.
Dispatched(n) ==
  LET begins == SelectSeq(SubSeq(trace, 1, n), LAMBDA e : e.ev = "begin" /\ e.kind = "emit")
  IN  [i \in 1..Len(begins) |-> begins[i].arg]

\* C11: then(cb) called by the constructing task (before the first item):
\* cb is called in a dispatch of completion, with the array of all items
\* dispatched till then, in dispatch order; when the producer emits and then
\* completes, cb is called exactly once and the promise then() returned is
\* resolved with what cb returned (nothing being deregistered).
C11_ThenCollectsAll ==
  (thenFuture # "none" /\ NoDereg) =>
    /\ \A n \in CbCalls :
         /\ trace[n].kind = "done"
         /\ trace[n].snap = Dispatched(n)
    /\ Completes =>
         /\ Cardinality(CbCalls) <= 1
         /\ Finished => Cardinality(CbCalls) = 1
         /\ (Finished /\ thenCb = "returns") =>
              /\ thenFuture = "resolved"
              /\ \A n \in CbCalls : thenValue = [how |-> "returned", of |-> trace[n].snap]
         /\ ~Finished /\ CbCalls = {} => thenFuture = "pending"

W11_ThenResolved ==
  /\ Finished
  /\ NoDereg
  /\ producer.shape = "array"
  /\ producer.items = << 2, 1 >>
  /\ thenFuture = "resolved"
  /\ thenValue = [how |-> "returned", of |-> << 2, 1 >>]
  /\ Cardinality(CbCalls) = 1

\* ----------------------------------------------------------------- C12
\* The producer calls emit n times and then the fault handle.
EmitsThenReject ==
  /\ producer.shape = "callback"
  /\ Len(producer.script) >= 1
  /\ \A k \in DOMAIN producer.script :
       producer.script[k] = IF k = Len(producer.script) THEN "reject" ELSE "emit"

\* When cb throws on completion the promise of then(cb) is rejected with
\* the thrown value.
ThrowOfCbRejects ==
  (thenFuture # "none" /\ NoDereg /\ Finished /\ Completes /\ thenCb = "throws") =>
    /\ thenFuture = "rejected"
    /\ \A n \in CbCalls : thenValue = [how |-> "thrown", of |-> trace[n].snap]

\* C12: when the Generator faults, the promise returned by then(cb) is
\* rejected once the run is over and cb was not called; when cb throws on
\* completion the promise is rejected with the thrown value.
C12_ThenRejectsOnFault ==
  /\ (thenFuture # "none" /\ NoDereg /\ Finished /\ EmitsThenReject) =>
       /\ thenFuture = "rejected"
       /\ CbCalls = {}
  /\ ThrowOfCbRejects

\* ----------------------------------------------------------------- C13
\* Where terminal events (completion, fault) were dispatched.
Terminals == Begins("done") \cup Begins("catch")

\* The first of them.
FirstTerminal == CHOOSE f \in Terminals : \A g \in Terminals : f <= g

\* What a promise wired to completion and fault is settled with by the
\* terminal event dispatched at entry f.
OutcomeOf(f) == IF trace[f].kind = "done" THEN "resolved" ELSE "rejected"

\* C13: the promise returned by done() (called by the constructing task)
\* is pending until a terminal event is dispatched; the first terminal event
\* dispatched resolves it if it is a completion and rejects it with the
\* error if it is a fault; terminal events dispatched later change nothing.
C13_DoneFutureFirstTerminal ==
  doneFuture # "none" =>
    IF Terminals = {} THEN doneFuture = "pending"
    ELSE /\ doneFuture \in {"pending", OutcomeOf(FirstTerminal)}
         /\ Over(trace[FirstTerminal].id) => doneFuture = OutcomeOf(FirstTerminal)
         /\ doneFuture = "rejected" => doneValue = trace[FirstTerminal].arg

W13_RejectedThenCompleted ==
  /\ Finished
  /\ producer.shape = "callback"
  /\ producer.script = << "emit", "reject", "done" >>
  /\ doneFuture = "rejected"
  /\ doneValue = 12
  /\ Cardinality(Begins("done")) = 1

\* ----------------------------------------------------------------- C14
\* The first dispatch of an item.
FirstItem == CHOOSE f \in Begins("emit") : \A g \in Begins("emit") : f <= g

\* C14: the promise returned by emit() (called by the constructing task) is
\* never rejected, whatever the producer does; it is pending until an item
\* is dispatched, the first item dispatched resolves it with that item, and
\* it keeps that value when later items are dispatched (nothing being
\* deregistered).
C14_EmitFutureFirstItem ==
  emitFuture # "none" =>
    /\ emitFuture # "rejected"
    /\ NoDereg =>
         IF Begins("emit") = {} THEN emitFuture = "pending"
         ELSE /\ emitFuture = "resolved" => emitValue = trace[FirstItem].arg
              /\ Over(trace[FirstItem].id) => emitFuture = "resolved"

W14_FirstOfTwoThenFault ==
  /\ Finished
  /\ NoDereg
  /\ producer.shape = "callback"
  /\ producer.script = << "reject", "emit", "emit" >>
  /\ Cardinality(Begins("emit")) = 2
  /\ Cardinality(Begins("catch")) = 1
  /\ emitFuture = "resolved"
  /\ emitValue = 2

\* ----------------------------------------------------------------- C15
Resolving == producer.shape = "promise" /\ producer.script = << "resolve" >>

\* C15: a Generator built from a promise that resolves to v dispatches
\* exactly one item, v, and after it completion, exactly once; listeners
\* registered by the constructing task receive both (nothing being
\* deregistered).
C15_PromiseItemThenDone ==
  Resolving =>
    /\ IsPrefix(Dispatched(Len(trace)), producer.items)
    /\ Cardinality(Begins("done")) <= 1
    /\ \A d \in Begins("done") : Dispatched(d) = producer.items
    /\ Finished =>
         /\ Dispatched(Len(trace)) = producer.items
         /\ Cardinality(Begins("done")) = 1
         /\ Begins("catch") = {}
         /\ \A l \in Listeners :
              /\ (AtConstruction("emit", l) /\ NoDereg) =>
                   Received("emit", l, Len(trace)) = producer.items
              /\ AtConstruction("done", l) => Len(Received("done", l, Len(trace))) = 1

W15_PromiseDelivered ==
  /\ Finished
  /\ Resolving
  /\ producer.items = << 2 >>
  /\ AtConstruction("emit", "a")
  /\ AtConstruction("done", "b")
  /\ Received("emit", "a", Len(trace)) = << 2 >>
  /\ Len(Received("done", "b", Len(trace))) = 1

\* ----------------------------------------------------------------- C16
Rejecting == producer.shape = "promise" /\ producer.script = << "reject" >>

\* C16: a Generator built from a promise that rejects with e dispatches e to
\* its fault listeners, and dispatches no item and no completion.
C16_PromiseRejectionFaults ==
  Rejecting =>
    /\ Begins("emit") = {}
    /\ Begins("done") = {}
    /\ Finished =>
         /\ \E b \in Begins("catch") : << trace[b].arg >> = producer.items
         /\ \A l \in Listeners :
              AtConstruction("catch", l) => Received("catch", l, Len(trace)) = producer.items

\* ------------------------------------------- reading a network's history
\* The network is at rest: its builder's task is over, no timer is set and
\* no promise reaction is waiting.
Quiet == stage = "run" /\ timers = << >> /\ jobs = << >>

\* The dispatches of events of kind on Generator s among the first n entries.
Dispatches(s, kind, n) ==
  SelectSeq(SubSeq(log, 1, n), LAMBDA e : e.ev = "dispatch" /\ e.of = s /\ e.kind = kind)

\* The items dispatched on the output among the first n entries, in order.
OutItems(n) == [k \in 1..Len(Dispatches(Out, "emit", n)) |-> Dispatches(Out, "emit", n)[k].arg]

\* Those of them that a listener on input i emitted.
Forwarded(i, n) ==
  LET es == SelectSeq(Dispatches(Out, "emit", n), LAMBDA e : e.from = i)
  IN  [k \in 1..Len(es) |-> es[k].arg]

\* What the consumer's listener of kind on the output was invoked with.
Heard(kind) ==
  LET es == SelectSeq(log, LAMBDA e : e.ev = "call" /\ e.of = Out /\ e.kind = kind)
  IN  [k \in 1..Len(es) |-> es[k].arg]

\* Where completion was dispatched on Generator s.
DoneAt(s) == { n \in DOMAIN log : log[n].ev = "dispatch" /\ log[n].of = s /\ log[n].kind = "done" }

Ins == 1..Len(inputs)

\* Every input of the network is a Generator built from an array.
FromArrays == \A i \in Ins : shapes[i] = "array"

\* ----------------------------------------------------------------- C17
\* C17: the output of union of inputs built from arrays dispatches, for every
\* input, exactly the items
\* of that input, in that input's order (at any time a prefix of them, all
\* of them once the network is at rest), nothing else, and the consumer's
\* item listener receives every item dispatched.
C17_UnionForwardsAll ==
  (method = "union" /\ FromArrays) =>
    /\ \A i \in Ins : IsPrefix(Forwarded(i, Len(log)), inputs[i])
    /\ \A n \in DOMAIN log :
         (log[n].ev = "dispatch" /\ log[n].of = Out /\ log[n].kind = "emit") => log[n].from \in Ins
    /\ Quiet =>
         /\ \A i \in Ins : Forwarded(i, Len(log)) = inputs[i]
         /\ Heard("emit") = OutItems(Len(log))

\* ----------------------------------------------------------------- C18
\* C18: the output of union dispatches completion at most once, only after
\* every input has dispatched its completion and every item of every input
\* has been dispatched on the output, and exactly once by the time the
\* network is at rest (every input built from an array completes).
C18_UnionCompletesOnce ==
  (method = "union" /\ FromArrays) =>
    /\ Cardinality(DoneAt(Out)) <= 1
    /\ \A d \in DoneAt(Out) : \A i \in Ins :
         /\ \E e \in DoneAt(i) : e < d
         /\ Forwarded(i, d) = inputs[i]
    /\ Quiet =>
         /\ Cardinality(DoneAt(Out)) = 1
         /\ Len(Heard("done")) = 1

\* ----------------------------------------------------------------- C19
\* comparator(a, b) as the caller of exclude means it.
Satisfies(a, b) == (comparator = "default" /\ a = b) \/ (comparator = "less" /\ a < b)

\* The items of big for which no item of small satisfies the comparator.
Kept ==
  SelectSeq(inputs[1], LAMBDA a : \A j \in 1..Len(inputs[2]) : ~Satisfies(a, inputs[2][j]))

\* C19: the output of exclude(big, small, comparator) of part_001, big and
\* small built from arrays, dispatches
\* exactly the items a of big for which no item b of small satisfies
\* comparator(a, b) (a === b when no comparator is given), in big's order,
\* and then completion, once; the consumer's listeners receive them.
C19_ExcludeKeeps ==
  (method = "exclude" /\ variant = "perEvent" /\ FromArrays) =>
    /\ IsPrefix(OutItems(Len(log)), Kept)
    /\ Cardinality(DoneAt(Out)) <= 1
    /\ \A d \in DoneAt(Out) : OutItems(d) = Kept
    /\ Quiet =>
         /\ OutItems(Len(log)) = Kept
         /\ Cardinality(DoneAt(Out)) = 1
         /\ Heard("emit") = Kept
         /\ Len(Heard("done")) = 1

W19_ExcludedOne ==
  /\ Quiet
  /\ FromArrays
  /\ method = "exclude"
  /\ variant = "perEvent"
  /\ comparator = "less"
  /\ inputs = << << 1, 2 >>, << 2 >> >>
  /\ Heard("emit") = << 2 >>
  /\ Len(Heard("done")) = 1

\* ----------------------------------------------------------------- C20
\* The hash keys that occur in every input.
Common == { v \in Values : \A i \in Ins : \E k \in DOMAIN inputs[i] : inputs[i][k] = v }

\* The hash keys of the items dispatched on the output, in order.
OutKeys == [k \in 1..Len(OutItems(Len(log))) |-> hasher(OutItems(Len(log))[k])]

\* C20: the output of intersectByHash of inputs built from arrays
\* dispatches no item whose key is
\* missing from some input and no key twice; once the network is at rest it
\* has dispatched one item for each key that occurs in every input, and
\* completion, after every input dispatched its completion.
C20_IntersectByHash ==
  (method = "intersectByHash" /\ FromArrays) =>
    /\ \A k \in DOMAIN OutKeys : OutKeys[k] \in Common
    /\ \A k, m \in DOMAIN OutKeys : OutKeys[k] = OutKeys[m] => k = m
    /\ \A d \in DoneAt(Out) : \A i \in Ins : \E e \in DoneAt(i) : e < d
    /\ Quiet =>
         /\ { OutKeys[k] : k \in DOMAIN OutKeys } = Common
         /\ Cardinality(DoneAt(Out)) = 1

\* ----------------------------------------------------------------- C21
\* How many items with key v the inputs hold together.
Occurrences(v) ==
  LET RECURSIVE upTo(_)
      upTo(i) == IF i = 0 THEN 0
                 ELSE upTo(i - 1) + Cardinality({ k \in DOMAIN inputs[i] : inputs[i][k] = v })
  IN  upTo(Len(inputs))

\* The keys that occur at least as often as there are inputs: the keys whose
\* occurrence counter reaches generators.length.
Reaching == { v \in Values : Occurrences(v) >= Len(inputs) }

\* C21: on the same inputs built from arrays, intersectByComparison with the
\* comparator a.id == b.id and intersectByHash with the hasher item.id (both
\* of part_001) dispatch the same set of keys, each key once: no key is
\* dispatched twice, every key dispatched is one whose occurrences reach the
\* number of inputs, and once the network is at rest every such key has
\* been dispatched and completion has been dispatched, once.
C21_SameKeysAsByHash ==
  (method \in Intersections /\ variant = "perEvent" /\ FromArrays) =>
    /\ \A k, m \in DOMAIN OutKeys : OutKeys[k] = OutKeys[m] => k = m
    /\ { OutKeys[k] : k \in DOMAIN OutKeys } \subseteq Reaching
    /\ Cardinality(DoneAt(Out)) <= 1
    /\ Quiet =>
         /\ { OutKeys[k] : k \in DOMAIN OutKeys } = Reaching
         /\ Cardinality(DoneAt(Out)) = 1
         /\ Len(Heard("done")) = 1

W21_ComparisonFoundBoth ==
  /\ Quiet
  /\ FromArrays
  /\ method = "intersectByComparison"
  /\ variant = "perEvent"
  /\ inputs = << << 1, 2 >>, << 2, 1 >> >>
  /\ OutKeys = << 2, 1 >>
  /\ Len(Heard("emit")) = 2
  /\ Len(Heard("done")) = 1

\* ----------------------------------------------------------------- C22
\* Where input i dispatched a fault.
FaultAt(i) == { n \in DOMAIN log : log[n].ev = "dispatch" /\ log[n].of = i /\ log[n].kind = "catch" }

\* C22: when an input of union, exclude, intersectByHash or
\* intersectByComparison (of part_001) has dispatched a fault with error e,
\* then by the time the network is at rest the fault listener registered on
\* the output has been invoked with e, and the output has not dispatched
\* completion.
C22_InputFaultPropagates ==
  (variant = "perEvent" /\ Quiet) =>
    \A i \in Ins : \A n \in FaultAt(i) :
      /\ \E k \in DOMAIN Heard("catch") : Heard("catch")[k] = log[n].arg
      /\ DoneAt(Out) = {}

\* ----------------------------------------------------------------- C23
\* C23: for a Generator built from an array, once an item listener has
\* called the cancel function it received with an element, no listener is
\* invoked with a later element, and completion is still dispatched, exactly
\* once by the time everything is over.
C23_CancelStopsItems ==
  producer.shape = "array" =>
    \A n \in Idx : trace[n].ev = "cancel" =>
      /\ \A m \in Idx :
           (trace[m].ev = "call" /\ trace[m].kind = "emit") => trace[m].id <= trace[n].id
      /\ Finished => Cardinality(Begins("done")) = 1

\* ----------------------------------------------------------------- C24
\* The producer ends by calling done(value), and calls done nowhere else.
WithPayload == producer \in PayloadProducers

\* C24: a call done(value) of the complete handle is not taken as a
\* completion: no completion listener is invoked for it, and once everything
\* is over a fault (Generator.InvalidResolution) has been dispatched instead.
C24_PayloadIsRefused ==
  WithPayload =>
    /\ \A n \in Idx : trace[n].ev = "call" => trace[n].kind # "done"
    /\ Finished => Begins("catch") # {}

\* ----------------------------------------------------------------- C25
\* Where an item arrived from an input: was dispatched on it.
ArrivalAt == { n \in DOMAIN log : log[n].ev = "dispatch" /\ log[n].of # Out /\ log[n].kind = "emit" }

\* The arrivals that are the K-th occurrence of their hash key, K being the
\* number of inputs.
KthAt ==
  { n \in ArrivalAt :
      Cardinality({ m \in ArrivalAt : m <= n /\ hasher(log[m].arg) = hasher(log[n].arg) })
        = Len(inputs) }

\* A finite set of numbers as a sequence, smallest first.
RECURSIVE Ascending(_)
Ascending(S) ==
  IF S = {} THEN << >>
  ELSE LET m == CHOOSE x \in S : \A y \in S : x <= y
       IN  << m >> \o Ascending(S \ {m})

\* The items whose arrival was a K-th occurrence, in order of arrival.
KthItems == [k \in 1..Cardinality(KthAt) |-> log[Ascending(KthAt)[k]].arg]

\* Where items were dispatched on the output, in order.
OutAt == Ascending({ n \in DOMAIN log : log[n].ev = "dispatch" /\ log[n].of = Out /\ log[n].kind = "emit" })

\* C25: the output of intersectByHash (part_001) dispatches the items whose
\* arrival brought the occurrence counter of their hash key to K, the number
\* of inputs, and nothing else: each such item once, after that arrival, in
\* the order of those arrivals (all of them once the network is at rest),
\* and no key twice, however many more occurrences arrive.
C25_DispatchAtKthOccurrence ==
  (method = "intersectByHash" /\ variant = "perEvent") =>
    /\ IsPrefix(OutItems(Len(log)), KthItems)
    /\ \A k \in DOMAIN OutAt : Ascending(KthAt)[k] < OutAt[k]
    /\ \A k, m \in DOMAIN OutKeys : OutKeys[k] = OutKeys[m] => k = m
    /\ Quiet => OutItems(Len(log)) = KthItems

W25_ThirdOccurrenceIgnored ==
  /\ Quiet
  /\ method = "intersectByHash"
  /\ variant = "perEvent"
  /\ inputs = << << 1, 1 >>, << 1, 2 >> >>
  /\ OutKeys = << 1 >>
  /\ Heard("emit") = << [id |-> 1, src |-> 1] >>

\* ----------------------------------------------------------------- C26
\* Where anything (an item, a fault, completion) was dispatched on the output.
OutDispatchAt == { n \in DOMAIN log : log[n].ev = "dispatch" /\ log[n].of = Out }

\* C26: the output of exclude (part_001) dispatches nothing, no item and no
\* completion, before both big and small have dispatched their completion;
\* with an input that never completes (one that stalls, or faults) the output
\* never dispatches anything.
C26_ExcludeWaitsForBoth ==
  (method = "exclude" /\ variant = "perEvent") =>
    /\ \A n \in OutDispatchAt : \A i \in Ins : \E e \in DoneAt(i) : e < n
    /\ ~FromArrays => OutDispatchAt = {}

W26_SmallNeverCompletes ==
  /\ Quiet
  /\ method = "exclude"
  /\ variant = "perEvent"
  /\ inputs = << << 1 >>, << 2 >> >>
  /\ shapes = << "array", "stalling" >>
  /\ DoneAt(1) # {}
  /\ ArrivalAt # {}
  /\ OutDispatchAt = {}

\* ----------------------------------------------------------------- C27
\* Where any event was dispatched.
Dispatching == { n \in Idx : trace[n].ev = "begin" }

\* C27: all dispatches of a Generator built from an array, of its items and
\* of its completion, happen in one task: they carry the same task number,
\* and no entry of another task (a registration or deregistration made by
\* another task of the consuming code) lies between two of them.
C27_OneTaskForAllDispatches ==
  producer.shape = "array" =>
    \A n, m \in Dispatching :
      /\ trace[n].tick = trace[m].tick
      /\ \A k \in Idx : (n < k /\ k < m) => trace[k].tick = trace[n].tick

\* ----------------------------------------------------------------- C28
\* The step is a call of deregister: it adds a "dereg" entry to the history.
DeregisterCalled == Len(trace') > Len(trace) /\ trace'[Len(trace')].ev = "dereg"

\* list without its p-th entry.
Without(list, p) == [i \in 1..(Len(list) - 1) |-> IF i < p THEN list[i] ELSE list[i + 1]]

InputsDone ==
  /\ Quiet
  /\ \A j \in Ins : shapes[j] = "array" \/ (shapes[j] = "promise" /\ j \in resolved)

\* C29: union given a promise that resolves to an array in place of an input
\* Generator returns an output that, once that promise and all other inputs
\* are done, has dispatched each element of the array, in order, and
\* completion, once.
C29_UnionTakesPromise ==
  (method = "union" /\ InputsDone) =>
    \A i \in Ins : shapes[i] = "promise" =>
      /\ Forwarded(i, Len(log)) = inputs[i]
      /\ Cardinality(DoneAt(Out)) = 1

\* ----------------------------------------------------------------- C30
\* Where activation id of callback(..) began.
BeginOf(id) == CHOOSE b \in Idx : trace[b].ev = "begin" /\ trace[b].id = id

\* The registrations made from inside a listener, for the kind of event
\* that was being dispatched to it.
RegisteredInside ==
  { n \in Idx : /\ trace[n].ev = "reg"
                /\ trace[n].id # 0
                /\ trace[BeginOf(trace[n].id)].kind = trace[n].kind }

\* C30: a listener registered from inside a listener, for the kind of event
\* being dispatched, is not invoked for that event (it is invoked in that
\* dispatch only as often as it was in the list when the dispatch began);
\* every later dispatch of that kind invokes it, after all the listeners
\* that were registered before it (nothing being deregistered).
C30_LateListenerWaits ==
  NoDereg =>
    \A n \in RegisteredInside :
      LET during == BeginOf(trace[n].id)
          l      == trace[n].l
      IN  /\ Count(Invoked(trace[n].id), l) <= Count(trace[during].snap, l)
          /\ \A b \in Begins(trace[n].kind) :
               (b > n /\ Over(trace[b].id)) =>
                 /\ Invoked(trace[b].id) = trace[b].snap
                 /\ IsPrefix(trace[during].snap, trace[b].snap)
                 /\ \E p \in (Len(trace[during].snap) + 1)..Len(trace[b].snap) :
                      trace[b].snap[p] = l

W30_InvokedFromNextEventOn ==
  \E n \in RegisteredInside :
    /\ trace[n].l = "b"
    /\ trace[BeginOf(trace[n].id)].snap = << "a" >>
    /\ Invoked(trace[n].id) = << "a" >>
    /\ Over(trace[n].id)
    /\ \E b \in Begins("emit") :
         /\ b > n
         /\ Over(trace[b].id)
         /\ Invoked(trace[b].id) = << "a", "b" >>

====
